---- MODULE Spec2Model ----
(***************************************************************************)
(* A model of the ocean crate's Beach (src/ocean/src/beach.rs) and         *)
(* ClanSystem (src/ocean/src/clans.rs).  Each public method is one action  *)
(* that performs the whole call and records what it returned in `result`.  *)
(***************************************************************************)
EXTENDS Integers, Sequences, FiniteSets, TLC

VARIABLES
    crabs,            \* Beach.crabs : Vec<Crab>
    clans,            \* ClanSystem.clans : HashMap<String, Vec<String>>
    result,           \* the last call: its name, its arguments, what it returned
    crab_log,         \* history: the crabs appended by add_crab / breed_crabs calls, in call order
    clan_log          \* history: the <<clan_id, crab_name>> of every add_crab_name call, in call order

vars == <<crabs, clans, result, crab_log, clan_log>>

(***************************************************************************)
(* Bounds of the model.                                                    *)
(***************************************************************************)
MaxCrabs == 3       \* crabs on the beach
MaxMembers == 3     \* add_member_to_clan calls
MaxNames == 2       \* length of a name list handed to get_crabs_avg_speed

Names == {"A", "B"}
ClanIds == {"c1", "c2", "c3"}
TwoClanIds == {"c1", "c2"}
BaseColors == {<<"red">>, <<"blue">>}
Diets == {"Fish", "Plants"}

(***************************************************************************)
(* u32.  TLC's integers stop at 2^31 - 1, so a u32 is kept as two 16-bit   *)
(* limbs <<hi, lo>> standing for hi * 65536 + lo.  A "wide" number is the  *)
(* same pair with hi unbounded; it holds the exact result of an operation  *)
(* before it is fitted back into 32 bits.                                  *)
(***************************************************************************)
Limb == 65536

U32(n) == <<0, n>>
U32_MAX == <<Limb - 1, Limb - 1>>

WideAdd(a, b) ==
    LET lo == a[2] + b[2]
    IN  <<a[1] + b[1] + (lo \div Limb), lo % Limb>>

FitsU32(w) == w[1] < Limb
WrapU32(w) == <<w[1] % Limb, w[2]>>

\* a < b, a <= b on u32 (and on wide numbers)
Less(a, b) == a[1] < b[1] \/ (a[1] = b[1] /\ a[2] < b[2])
LessEq(a, b) == a = b \/ Less(a, b)

\* a / n for an integer 0 < n < Limb, rounded down
DivU32(a, n) == <<a[1] \div n, ((a[1] % n) * Limb + a[2]) \div n>>

\* speed_sum += s : the new sum.  When it does not fit, a build with overflow
\* checks (the dev profile) panics and a build without (release) wraps
AddAssignU32(sum, s, overflow_checks) ==
    LET w == WideAdd(sum, s)
    IN  IF FitsU32(w) THEN [kind |-> "value", val |-> w]
        ELSE IF overflow_checks THEN [kind |-> "panic", val |-> "attempt to add with overflow"]
        ELSE [kind |-> "value", val |-> WrapU32(w)]

SmallSpeeds == {U32(0), U32(1), U32(2)}
Speeds == SmallSpeeds \cup {U32_MAX}

(***************************************************************************)
(* Crab, Color and Diet live in crate modules outside the two files        *)
(* modelled here.  A crab is its four constructor arguments; a crossed     *)
(* color is the term built from the two parent colors, so that it tells    *)
(* which parents were crossed and in which order.                          *)
(***************************************************************************)
Crab_new(name, speed, color, diet) ==
    [name |-> name, speed |-> speed, color |-> color, diet |-> diet]

Color_cross(c1, c2) == <<"cross(">> \o c1 \o <<",">> \o c2 \o <<")">>

\* return values
Unit == [kind |-> "unit", val |-> "()"]
None == [kind |-> "None", val |-> "None"]
Some(v) == [kind |-> "Some", val |-> v]
Panic(msg) == [kind |-> "panic", val |-> msg]
Value(v) == [kind |-> "value", val |-> v]

\* a panic unwinds out of the test or program that owns the beach
Panicked == result.ret.kind = "panic"

\* &self.crabs[k], k counted from 0: the place borrowed and the crab there
Ref(k) == [idx |-> k, crab |-> crabs[k + 1]]

InBounds(k) == k < Len(crabs)

Init ==
    /\ crabs = <<>>
    /\ clans = [id \in {} |-> <<>>]
    /\ result = [op |-> "new", args |-> <<>>, ret |-> Unit]
    /\ crab_log = <<>>
    /\ clan_log = <<>>

(***************************************************************************)
(* Beach                                                                   *)
(***************************************************************************)
size == Len(crabs)

Call_size ==
    /\ ~Panicked
    /\ result' = [op |-> "size", args |-> <<>>, ret |-> Value(size)]
    /\ UNCHANGED <<crabs, clans, crab_log, clan_log>>

add_crab_Front(crab) == <<crab>> \o crabs

\* self.crabs after add_crab(crab)
add_crab(crab) == Append(crabs, crab)

Call_add_crab(crab) ==
    /\ ~Panicked
    /\ crabs' = add_crab(crab)
    /\ crab_log' = Append(crab_log, crab)
    /\ result' = [op |-> "add_crab", args |-> <<crab>>, ret |-> Unit]
    /\ UNCHANGED <<clans, clan_log>>

get_crab(index) ==
    IF InBounds(index) THEN Value(Ref(index).crab)
    ELSE Panic("index out of bounds")

Call_get_crab(index) ==
    /\ ~Panicked
    /\ result' = [op |-> "get_crab", args |-> <<index>>, ret |-> get_crab(index)]
    /\ UNCHANGED <<crabs, clans, crab_log, clan_log>>

RECURSIVE MaxBySpeed(_, _)
RECURSIVE MaxBySpeed_First(_, _)

MaxBySpeed_First(best, k) ==
    IF k >= Len(crabs) THEN best
    ELSE IF LessEq(crabs[k + 1].speed, crabs[best + 1].speed)
         THEN MaxBySpeed_First(best, k + 1)
         ELSE MaxBySpeed_First(k, k + 1)

\* Iterator::max_by_key(|x| x.speed()) from position k of self.crabs on, `best`
\* the position kept so far: a later crab replaces it unless it is strictly slower
MaxBySpeed(best, k) ==
    IF k >= Len(crabs) THEN best
    ELSE IF Less(crabs[k + 1].speed, crabs[best + 1].speed)
         THEN MaxBySpeed(best, k + 1)
         ELSE MaxBySpeed(k, k + 1)

get_fastest_crab == IF crabs = <<>> THEN None ELSE Some(Ref(MaxBySpeed(0, 1)))

Call_get_fastest_crab ==
    /\ ~Panicked
    /\ result' = [op |-> "get_fastest_crab", args |-> <<>>, ret |-> get_fastest_crab]
    /\ UNCHANGED <<crabs, clans, crab_log, clan_log>>

\* the positions (from 0) of the crabs named `name`, in storage order
RECURSIVE Filter(_, _)
Filter(name, k) ==
    IF k >= Len(crabs) THEN <<>>
    ELSE IF crabs[k + 1].name = name
         THEN <<k>> \o Filter(name, k + 1)
         ELSE Filter(name, k + 1)

find_crabs_by_name(name) == Filter(name, 0)

Call_find_crabs_by_name(name) ==
    /\ ~Panicked
    /\ result' = [op |-> "find_crabs_by_name", args |-> <<name>>,
                  ret |-> Value(find_crabs_by_name(name))]
    /\ UNCHANGED <<crabs, clans, crab_log, clan_log>>

breed_crabs_ParentSpeed(i, j, name, diet) ==
    IF ~InBounds(i) \/ ~InBounds(j) THEN Panic("index out of bounds")
    ELSE Value(Crab_new(name, crabs[i + 1].speed,
                        Color_cross(crabs[i + 1].color, crabs[j + 1].color), diet))

\* the crab breed_crabs(i, j, name) builds, `diet` being what random_diet() drew;
\* the arguments are evaluated before the push, so i and j index the old vector
breed_crabs(i, j, name, diet) ==
    IF ~InBounds(i) \/ ~InBounds(j) THEN Panic("index out of bounds")
    ELSE Value(Crab_new(name, U32(1),
                        Color_cross(crabs[i + 1].color, crabs[j + 1].color), diet))

Call_breed_crabs(i, j, name) ==
    /\ ~Panicked
    /\ \E child \in {breed_crabs(i, j, name, diet) : diet \in Diets} :
          \/ /\ child.kind = "panic"
             /\ result' = [op |-> "breed_crabs", args |-> <<i, j, name>>, ret |-> child]
             /\ UNCHANGED <<crabs, crab_log>>
          \/ /\ child.kind = "value"
             /\ crabs' = Append(crabs, child.val)
             /\ crab_log' = Append(crab_log, child.val)
             /\ result' = [op |-> "breed_crabs", args |-> <<i, j, name>>, ret |-> Unit]
    /\ UNCHANGED <<clans, clan_log>>

(***************************************************************************)
(* ClanSystem                                                              *)
(***************************************************************************)
get_clan_member_names(clan_id) ==
    IF clan_id \in DOMAIN clans THEN clans[clan_id] ELSE <<>>

get_clan_count == Cardinality(DOMAIN clans)

get_clan_member_count(clan_id) ==
    IF clan_id \in DOMAIN clans THEN Len(clans[clan_id]) ELSE 0

\* the orders in which HashMap::iter may yield the keys of a set S
Orders(S) ==
    {o \in [1..Cardinality(S) -> S] : \A i, j \in 1..Cardinality(S) : i # j => o[i] # o[j]}

RECURSIVE MaxByLen(_, _, _)
RECURSIVE MaxByLen_Min(_, _, _)

MaxByLen_Min(order, best, k) ==
    IF k > Len(order) THEN best
    ELSE IF Len(clans[best]) < Len(clans[order[k]])
         THEN MaxByLen_Min(order, best, k + 1)
         ELSE MaxByLen_Min(order, order[k], k + 1)

\* Iterator::max_by(|x, y| x.1.len().cmp(&y.1.len())) from position k of the
\* iteration on: the entry kept so far stays only if it is strictly longer
MaxByLen(order, best, k) ==
    IF k > Len(order) THEN best
    ELSE IF Len(clans[best]) > Len(clans[order[k]])
         THEN MaxByLen(order, best, k + 1)
         ELSE MaxByLen(order, order[k], k + 1)

get_largest_clan_id(order) ==
    IF Len(order) = 0 THEN None ELSE Some(MaxByLen(order, order[1], 2))

add_crab_name_Replace(clan_id, crab_name) ==
    IF clan_id \in DOMAIN clans
    THEN [clans EXCEPT ![clan_id] = <<crab_name>>]
    ELSE clans @@ (clan_id :> <<crab_name>>)

\* self.clans after add_crab_name(clan_id, crab_name)
add_crab_name(clan_id, crab_name) ==
    IF clan_id \in DOMAIN clans
    THEN [clans EXCEPT ![clan_id] = Append(@, crab_name)]
    ELSE clans @@ (clan_id :> <<crab_name>>)

Call_get_clan_member_names(clan_id) ==
    /\ ~Panicked
    /\ result' = [op |-> "get_clan_member_names", args |-> <<clan_id>>,
                  ret |-> Value(get_clan_member_names(clan_id))]
    /\ UNCHANGED <<crabs, clans, crab_log, clan_log>>

Call_get_clan_count ==
    /\ ~Panicked
    /\ result' = [op |-> "get_clan_count", args |-> <<>>, ret |-> Value(get_clan_count)]
    /\ UNCHANGED <<crabs, clans, crab_log, clan_log>>

Call_get_clan_member_count(clan_id) ==
    /\ ~Panicked
    /\ result' = [op |-> "get_clan_member_count", args |-> <<clan_id>>,
                  ret |-> Value(get_clan_member_count(clan_id))]
    /\ UNCHANGED <<crabs, clans, crab_log, clan_log>>

Call_get_largest_clan_id ==
    /\ ~Panicked
    /\ \E order \in Orders(DOMAIN clans) :
          result' = [op |-> "get_largest_clan_id", args |-> <<>>,
                     ret |-> get_largest_clan_id(order)]
    /\ UNCHANGED <<crabs, clans, crab_log, clan_log>>

\* Beach::add_member_to_clan, which is ClanSystem::add_crab_name on the owned system
Call_add_member_to_clan(clan_id, crab_name) ==
    /\ ~Panicked
    /\ clans' = add_crab_name(clan_id, crab_name)
    /\ clan_log' = Append(clan_log, <<clan_id, crab_name>>)
    /\ result' = [op |-> "add_member_to_clan", args |-> <<clan_id, crab_name>>, ret |-> Unit]
    /\ UNCHANGED <<crabs, crab_log>>

(***************************************************************************)
(* Beach: the clan competition                                             *)
(***************************************************************************)
RECURSIVE SumLoop(_, _, _, _)
RECURSIVE SumLoop_Unwrap(_, _, _, _)

SumLoop_Unwrap(names, k, speed_sum, overflow_checks) ==
    IF k > Len(names) THEN Value(speed_sum)
    ELSE LET found == find_crabs_by_name(names[k])
         IN  IF found = <<>> THEN Panic("called Option::unwrap() on a None value")
             ELSE LET sum == AddAssignU32(speed_sum, Ref(found[1]).crab.speed, overflow_checks)
                  IN  IF sum.kind = "panic" THEN sum
                      ELSE SumLoop_Unwrap(names, k + 1, sum.val, overflow_checks)

\* the `for name in names` loop of get_crabs_avg_speed from the k-th name on
SumLoop(names, k, speed_sum, overflow_checks) ==
    IF k > Len(names) THEN Value(speed_sum)
    ELSE LET found == find_crabs_by_name(names[k])
         IN  IF found = <<>> THEN SumLoop(names, k + 1, speed_sum, overflow_checks)
             ELSE LET sum == AddAssignU32(speed_sum, Ref(found[1]).crab.speed, overflow_checks)
                  IN  IF sum.kind = "panic" THEN sum
                      ELSE SumLoop(names, k + 1, sum.val, overflow_checks)

\* cnt is u32::try_from(names.len()).unwrap_or(0), which is names.len() for
\* every list shorter than 2^32
get_crabs_avg_speed(names, overflow_checks) ==
    LET sum == SumLoop(names, 1, U32(0), overflow_checks)
        cnt == Len(names)
    IN  IF sum.kind = "panic" THEN sum
        ELSE IF cnt = 0 THEN Value(U32(0))
        ELSE Value(DivU32(sum.val, cnt))

Call_get_crabs_avg_speed(names) ==
    /\ ~Panicked
    /\ \E overflow_checks \in BOOLEAN :
          result' = [op |-> "get_crabs_avg_speed", args |-> <<names>>,
                     ret |-> get_crabs_avg_speed(names, overflow_checks)]
    /\ UNCHANGED <<crabs, clans, crab_log, clan_log>>

Err(msg) == [kind |-> "Err", val |-> msg]
Ok(v) == [kind |-> "Ok", val |-> v]

get_winner_clan(id1, id2, overflow_checks) ==
    LET clan1 == get_clan_member_names(id1)
        clan2 == get_clan_member_names(id2)
        avg1 == get_crabs_avg_speed(clan1, overflow_checks)
        avg2 == get_crabs_avg_speed(clan2, overflow_checks)
    IN  IF clan1 = <<>> THEN Err(<<"No clan named ", id1>>)
        ELSE IF clan2 = <<>> THEN Err(<<"No clan named ", id2>>)
        ELSE IF avg1.kind = "panic" THEN avg1
        ELSE IF avg2.kind = "panic" THEN avg2
        ELSE IF avg1.val = avg2.val THEN Ok(None)
        ELSE IF Less(avg2.val, avg1.val) THEN Ok(Some(id1))
        ELSE Ok(Some(id2))

Call_get_winner_clan(id1, id2) ==
    /\ ~Panicked
    /\ \E overflow_checks \in BOOLEAN :
          result' = [op |-> "get_winner_clan", args |-> <<id1, id2>>,
                     ret |-> get_winner_clan(id1, id2, overflow_checks)]
    /\ UNCHANGED <<crabs, clans, crab_log, clan_log>>

(***************************************************************************)
(* Inputs and specifications.  Every specification starts from             *)
(* Beach::new() and differs in the calls a client makes and in the sets    *)
(* their arguments are drawn from.                                         *)
(***************************************************************************)
SeqsUpTo(S, n) == UNION {[1..m -> S] : m \in 0..n}

BeachCrabs == {Crab_new("A", s, c, "Fish") : s \in {U32(1), U32_MAX}, c \in BaseColors}
SpeedCrabs == {Crab_new(n, s, <<"red">>, "Fish") : n \in Names, s \in Speeds}
SmallCrabs == {Crab_new(n, s, <<"red">>, "Fish") : n \in Names, s \in SmallSpeeds}

\* a program that fills the beach, breeds and looks at the crabs, and now and
\* then registers a clan member: at most MaxCrabs calls that change the beach.
\* breed_crabs is called with every index up to the first one out of bounds
NextBeach ==
    \/ Len(crabs) + Len(clan_log) < MaxCrabs
       /\ \E crab \in BeachCrabs : Call_add_crab(crab)
    \/ \E i, j \in 0..Len(crabs), name \in Names :
          /\ Len(crabs) + Len(clan_log) < MaxCrabs \/ ~InBounds(i) \/ ~InBounds(j)
          /\ Call_breed_crabs(i, j, name)
    \/ Len(crabs) + Len(clan_log) < MaxCrabs
       /\ \E clan_id \in TwoClanIds : Call_add_member_to_clan(clan_id, "A")
    \/ Call_size
    \/ \E index \in 0..Len(crabs) : Call_get_crab(index)
    \/ Call_get_fastest_crab

SpecBeach == Init /\ [][NextBeach]_vars

\* a program that only registers clan members and queries the clan system
NextClans ==
    \/ Len(clan_log) < MaxMembers
       /\ \E clan_id \in ClanIds, crab_name \in Names : Call_add_member_to_clan(clan_id, crab_name)
    \/ \E clan_id \in ClanIds : Call_get_clan_member_names(clan_id)
    \/ Call_get_clan_count
    \/ \E clan_id \in ClanIds : Call_get_clan_member_count(clan_id)
    \/ Call_get_largest_clan_id

SpecClans == Init /\ [][NextClans]_vars

\* a program that adds crabs and averages the speeds of lists of names
NextAvg ==
    \/ Len(crabs) < MaxCrabs /\ \E crab \in SpeedCrabs : Call_add_crab(crab)
    \/ \E name \in Names : Call_find_crabs_by_name(name)
    \/ \E names \in SeqsUpTo(Names, MaxNames) : Call_get_crabs_avg_speed(names)

SpecAvg == Init /\ [][NextAvg]_vars

\* a program that adds crabs, registers clan members and holds competitions
NextRace ==
    \/ Len(crabs) < MaxCrabs /\ \E crab \in SpeedCrabs : Call_add_crab(crab)
    \/ Len(clan_log) < MaxMembers
       /\ \E clan_id \in TwoClanIds, crab_name \in Names : Call_add_member_to_clan(clan_id, crab_name)
    \/ \E id1, id2 \in TwoClanIds : Call_get_winner_clan(id1, id2)

SpecRace == Init /\ [][NextRace]_vars

\* the same program with crabs whose speeds are far from u32::MAX
NextSmallRace ==
    \/ Len(crabs) < MaxCrabs /\ \E crab \in SmallCrabs : Call_add_crab(crab)
    \/ Len(clan_log) < MaxMembers
       /\ \E clan_id \in TwoClanIds, crab_name \in Names : Call_add_member_to_clan(clan_id, crab_name)
    \/ \E id1, id2 \in TwoClanIds : Call_get_winner_clan(id1, id2)

SpecSmallRace == Init /\ [][NextSmallRace]_vars

\* every call a client can make
Next ==
    \/ NextBeach
    \/ NextClans
    \/ NextAvg
    \/ NextRace

Spec == Init /\ [][Next]_vars

(***************************************************************************)
(* The crab sequence                                                       *)
(***************************************************************************)
C1_State ==
    /\ size = Len(crab_log)
    /\ \A k \in 0..(Len(crab_log) - 1) : get_crab(k) = Value(crab_log[k + 1])
    /\ result.op = "size" => result.ret = Value(Len(crab_log))
    /\ (result.op = "get_crab" /\ result.args[1] < Len(crab_log))
          => result.ret = Value(crab_log[result.args[1] + 1])

C1_Step ==
    /\ Len(crabs') >= Len(crabs)
    /\ \A k \in 1..Len(crabs) : crabs'[k] = crabs[k]

\* C1: the crab sequence is append-only.  After any calls of add_crab,
\* breed_crabs (indices in bounds), add_member_to_clan and the queries, size()
\* is the number of add_crab and breed_crabs calls made, get_crab(k) is the crab
\* the k-th such call appended, and no step removes, replaces or moves a crab.
C1_AppendOnly == [](C1_State) /\ [][C1_Step]_vars

\* C1 happens: an add_crab, a breed_crabs and an add_member_to_clan were made
\* and get_crab(1) has just returned the bred crab.
C1_Witness ==
    /\ Len(crab_log) = 2
    /\ Len(clan_log) = 1
    /\ Len(crabs[2].color) > 1
    /\ result.op = "get_crab"
    /\ result.args = <<1>>
    /\ result.ret.kind = "value"

C2_Step ==
    (/\ result'.op = "breed_crabs"
     /\ result'.args[1] < Len(crabs)
     /\ result'.args[2] < Len(crabs))
    => LET n == Len(crabs)
           i == result'.args[1]
           j == result'.args[2]
       IN  /\ result'.ret = Unit
           /\ Len(crabs') = n + 1
           /\ crabs'[n + 1].name = result'.args[3]
           /\ crabs'[n + 1].speed = U32(1)
           /\ crabs'[n + 1].color = Color_cross(crabs[i + 1].color, crabs[j + 1].color)
           /\ \A k \in 1..n : crabs'[k] = crabs[k]

\* C2: on a beach of n crabs, breed_crabs(i, j, name) with i < n and j < n
\* (i = j included) leaves n + 1 crabs; the crab at index n has the given name,
\* speed exactly 1 whatever the parents' speeds, and the cross of the colors of
\* the crabs at i and j as its color; the crabs at 0..n-1 are unchanged.
C2_Breed == [][C2_Step]_vars

\* C2 happens: two different crabs were just bred, the first of them as fast
\* as a crab can be, and their colors differ.
C2_Witness ==
    /\ result.op = "breed_crabs"
    /\ result.ret = Unit
    /\ Len(crabs) = 3
    /\ result.args[1] = 1
    /\ result.args[2] = 0
    /\ crabs[2].speed = U32_MAX
    /\ crabs[1].color # crabs[2].color
    /\ crabs[3].speed = U32(1)

\* C7: get_fastest_crab() returns the empty result exactly when the beach holds
\* no crabs; otherwise it returns a crab of the beach at least as fast as every
\* crab, and among several fastest crabs the one with the highest index.
C7_Fastest ==
    result.op = "get_fastest_crab" =>
        /\ result.ret.kind = "None" <=> crabs = <<>>
        /\ crabs # <<>> =>
              /\ result.ret.kind = "Some"
              /\ result.ret.val.idx \in 0..(Len(crabs) - 1)
              /\ result.ret.val.crab = crabs[result.ret.val.idx + 1]
              /\ \A k \in 1..Len(crabs) :
                    /\ LessEq(crabs[k].speed, result.ret.val.crab.speed)
                    /\ k > result.ret.val.idx + 1 =>
                          Less(crabs[k].speed, result.ret.val.crab.speed)

\* C7 happens: the first two of three crabs share the highest speed and
\* get_fastest_crab has just returned the second.
C7_Witness ==
    /\ result.op = "get_fastest_crab"
    /\ Len(crabs) = 3
    /\ crabs[1].speed = U32_MAX
    /\ crabs[2].speed = U32_MAX
    /\ crabs[3].speed = U32(1)
    /\ result.ret.kind = "Some"
    /\ result.ret.val.idx = 1

(***************************************************************************)
(* The clan system                                                         *)
(***************************************************************************)
\* the crab names of the calls in `log` made with clan id `id`, in call order
RECURSIVE NamesPassed(_, _)
NamesPassed(log, id) ==
    IF log = <<>> THEN <<>>
    ELSE IF Head(log)[1] = id
         THEN <<Head(log)[2]>> \o NamesPassed(Tail(log), id)
         ELSE NamesPassed(Tail(log), id)

IdsPassed == {clan_log[k][1] : k \in 1..Len(clan_log)}

\* C6: after any add_crab_name / add_member_to_clan calls,
\* get_clan_member_count(id) is the number of calls made with that id
\* (duplicate names counted each time, 0 for an id never used), get_clan_count()
\* is the number of distinct ids ever passed, and get_clan_member_names(id) is
\* the names passed for that id in call order (empty for an id never used).
C6_Counts ==
    /\ get_clan_count = Cardinality(IdsPassed)
    /\ \A id \in ClanIds :
          /\ get_clan_member_count(id) = Len(NamesPassed(clan_log, id))
          /\ get_clan_member_names(id) = NamesPassed(clan_log, id)
    /\ result.op = "get_clan_count" => result.ret = Value(Cardinality(IdsPassed))
    /\ result.op = "get_clan_member_count"
          => result.ret = Value(Len(NamesPassed(clan_log, result.args[1])))
    /\ result.op = "get_clan_member_names"
          => result.ret = Value(NamesPassed(clan_log, result.args[1]))

\* C6 happens: the same name was added twice to one clan, another clan got a
\* member in between, and the first clan's member count was just asked for.
C6_Witness ==
    /\ Len(clan_log) = 3
    /\ clan_log[1] = clan_log[3]
    /\ clan_log[2][1] # clan_log[1][1]
    /\ result.op = "get_clan_member_count"
    /\ result.args = <<clan_log[1][1]>>
    /\ result.ret = Value(2)

Member(name, id) == \E k \in 1..Len(get_clan_member_names(id)) : get_clan_member_names(id)[k] = name

\* C8: after any add_member_to_clan calls, every crab name is in the member
\* list of at most one clan id.
C8_OneClanPerCrab ==
    \A name \in Names : \A id1, id2 \in ClanIds :
        (Member(name, id1) /\ Member(name, id2)) => id1 = id2

\* C9: get_largest_clan_id() returns the empty result exactly when no clan id
\* was ever added to; otherwise it returns a registered clan id with at least
\* as many members as every registered clan.
C9_Largest ==
    result.op = "get_largest_clan_id" =>
        /\ result.ret.kind = "None" <=> clan_log = <<>>
        /\ clan_log # <<>> =>
              /\ result.ret.kind = "Some"
              /\ result.ret.val \in IdsPassed
              /\ \A id \in IdsPassed :
                    Len(NamesPassed(clan_log, id)) <= Len(NamesPassed(clan_log, result.ret.val))

\* C9 happens: one clan has two members, the other one, and
\* get_largest_clan_id has just returned the larger.
C9_Witness ==
    /\ result.op = "get_largest_clan_id"
    /\ get_clan_member_count("c1") = 1
    /\ get_clan_member_count("c2") = 2
    /\ result.ret = Some("c2")

(***************************************************************************)
(* Average speeds and the competition.  The claims speak of exact sums and *)
(* quotients, which are computed here on wide numbers.                     *)
(***************************************************************************)
Matched(name) == \E k \in 1..Len(crabs) : crabs[k].name = name

\* the speed of the lowest-index crab named `name`
FirstSpeed(name) ==
    LET k == CHOOSE k \in 1..Len(crabs) :
                 crabs[k].name = name /\ \A m \in 1..(k - 1) : crabs[m].name # name
    IN  crabs[k].speed

\* the exact sum, over every entry of `names` that matches a crab, of the
\* speed of the lowest-index crab bearing that name
RECURSIVE ExactSum(_)
ExactSum(names) ==
    IF names = <<>> THEN U32(0)
    ELSE IF Matched(Head(names))
         THEN WideAdd(FirstSpeed(Head(names)), ExactSum(Tail(names)))
         ELSE ExactSum(Tail(names))

WideMul(w, n) ==
    LET lo == w[2] * n
    IN  <<w[1] * n + (lo \div Limb), lo % Limb>>

WideDiv(w, n) == <<w[1] \div n, ((w[1] % n) * Limb + w[2]) \div n>>

AllMatched(names) == \A k \in 1..Len(names) : Matched(names[k])

\* C10: for a name list in which every name matches a crab,
\* get_crabs_avg_speed(names) returns 0 when the list is empty and otherwise
\* the quotient, rounded down, of S by the length of the list, S being the sum
\* over every entry (repeated entries included) of the speed of the
\* lowest-index crab bearing that name.
C10_Average ==
    (result.op = "get_crabs_avg_speed" /\ AllMatched(result.args[1])) =>
        LET names == result.args[1]
        IN  IF names = <<>> THEN result.ret = Value(U32(0))
            ELSE result.ret = Value(WideDiv(ExactSum(names), Len(names)))

MembersPassed(id) == NamesPassed(clan_log, id)

C3_Step ==
    result'.op = "get_winner_clan" =>
        LET none1 == MembersPassed(result'.args[1]) = <<>>
            none2 == MembersPassed(result'.args[2]) = <<>>
        IN  /\ result'.ret.kind = "Err" <=> (none1 \/ none2)
            /\ (~none1 /\ ~none2) => result'.ret.kind = "Ok"
            /\ crabs' = crabs
            /\ clans' = clans

\* C3: get_winner_clan(id1, id2) returns Err if and only if id1 or id2 has no
\* members (was never passed to add_member_to_clan), whatever crabs are on the
\* beach; when both have a member it returns a non-error result; in every case
\* the beach and the clan system are left unchanged.
C3_ErrIffNoMembers == [][C3_Step]_vars

\* C4: for two clans that each have a member and whose member names all match
\* a crab, get_winner_clan(id1, id2) returns the clan whose members' average
\* speed (sum of speeds over member count) is strictly higher whenever the two
\* averages differ, and Ok(None) only when the averages are exactly equal.
C4_HigherAverageWins ==
    LET id1 == result.args[1]
        id2 == result.args[2]
        m1 == MembersPassed(id1)
        m2 == MembersPassed(id2)
        \* S1 / n1 against S2 / n2, compared as S1 * n2 against S2 * n1
        x1 == WideMul(ExactSum(m1), Len(m2))
        x2 == WideMul(ExactSum(m2), Len(m1))
    IN  (/\ result.op = "get_winner_clan"
         /\ m1 # <<>> /\ m2 # <<>>
         /\ AllMatched(m1) /\ AllMatched(m2))
        => /\ Less(x2, x1) => result.ret = Ok(Some(id1))
           /\ Less(x1, x2) => result.ret = Ok(Some(id2))
           /\ result.ret = Ok(None) => x1 = x2

====
